---- MODULE Spec2Model ----
(***************************************************************************)
(* Model of the batch answer generator.                                    *)
(*   cascade variant : scripts/generate_answers.py                         *)
(*                     (Groq HTTP caller with a list of candidate models)  *)
(*   single variant  : scripts/scripts/generate_answers.py                 *)
(*                     (one openai.ChatCompletion.create call)             *)
(* Both scripts share load_data, build_prompt and the main loop; they      *)
(* differ in call_llm.  The variant is fixed in the initial state.         *)
(*                                                                         *)
(* Python values: None and str are records tagged with their type; a str   *)
(* is a sequence of tokens (characters or larger pieces of text).          *)
(***************************************************************************)
EXTENDS Integers, Sequences, FiniteSets, TLC

\* ---------------------------------------------------------------- bounds
\* Largest number of rows in the CSV file.
MaxRows == 2

\* Largest target sample size.  The script sets N = 10 for a test run ("zet op
\* 1000 voor full-run"); the model takes N as a parameter of the run, between
\* 1 and MaxN, so that datasets smaller than, equal to and larger than N occur.
MaxN == 2

\* ---------------------------------------------------------- Python values
None == [type |-> "NoneType"]

Str(s) == [type |-> "str", chars |-> s]

\* bool(v) for v a str or None
Truthy(v) == v.type = "str" /\ Len(v.chars) > 0

\* a or b
PyOr(a, b) == IF Truthy(a) THEN a ELSE b

Whitespace == {" "}

RECURSIVE LStrip(_)
LStrip(s) == IF s # <<>> /\ Head(s) \in Whitespace THEN LStrip(Tail(s)) ELSE s

RECURSIVE RStrip(_)
RStrip(s) ==
    IF s # <<>> /\ s[Len(s)] \in Whitespace THEN RStrip(SubSeq(s, 1, Len(s) - 1)) ELSE s

\* str.strip()
Strip(v) == Str(RStrip(LStrip(v.chars)))

\* str(int) for the status codes the provider returns
StatusStr(n) ==
    CASE n = 200 -> "200" [] n = 401 -> "401" [] n = 403 -> "403" [] OTHER -> "500"

NoExc == [type |-> "", where |-> ""]

Exc(t, w) == [type |-> t, where |-> w]

\* ------------------------------------------------------------- the inputs
\* One row of the CSV file.  An empty werkervaring_jaren cell is read by
\* pandas as NaN.
Row(k, exp) ==
    [index |-> k - 1, medewerker_id |-> k, functie |-> Str(<<"F">>),
     werkervaring_jaren |-> exp]

\* The datasets of r rows: each werkervaring_jaren cell holds 5 or is empty.
Datasets(r) == { [k \in 1..r |-> Row(k, e[k])] : e \in [1..r -> {"5", "nan"}] }

\* Process environments: GROQ_API, GROQ_API_KEY and MODEL set or unset.
Environments ==
    { [GROQ_API |-> None, GROQ_API_KEY |-> None, MODEL |-> None],
      [GROQ_API |-> Str(<<"k1">>), GROQ_API_KEY |-> None, MODEL |-> None],
      [GROQ_API |-> None, GROQ_API_KEY |-> Str(<<"k2">>),
       MODEL |-> Str(<<"preferred-model">>)] }

\* What requests.post can do: raise, or return a response.
Body200 ==
    { [json |-> "invalid", content |-> None],
      [json |-> "other", content |-> None],
      [json |-> "chat", content |-> None],
      [json |-> "chat", content |-> Str(<<" ", "a", " ">>)],
      [json |-> "chat", content |-> Str(<<" ">>)] }

\* A response with a status other than 200.
ErrorResponse(s) ==
    [kind |-> "response", msg |-> <<>>, status_code |-> s,
     body |-> [json |-> "other", content |-> None]]

PostOutcomes ==
    { [kind |-> "exception", msg |-> <<"timeout">>, status_code |-> 0,
       body |-> [json |-> "invalid", content |-> None]] }
    \cup { [kind |-> "response", msg |-> <<>>, status_code |-> 200, body |-> b] :
             b \in Body200 }
    \cup { ErrorResponse(s) : s \in {401, 403, 500} }

\* What openai.ChatCompletion.create can do: raise (the library raises on
\* every HTTP error; str(e) may be empty), or return a response.
CreateOutcomes ==
    { [kind |-> "exception", msg |-> m, status_code |-> 0,
       body |-> [json |-> "invalid", content |-> None]] : m \in {<<>>, <<"timeout">>} }
    \cup { [kind |-> "response", msg |-> <<>>, status_code |-> 200, body |-> b] :
             b \in Body200 \ {[json |-> "invalid", content |-> None]} }

NoResult ==
    [kind |-> "none", msg |-> <<>>, status_code |-> 0,
     body |-> [json |-> "invalid", content |-> None]]

VARIABLES
    variant,      \* "cascade" or "single": which script runs
    csv_exists,   \* CSV_PATH.exists()
    csv_rows,     \* the rows of the file at CSV_PATH
    env,          \* os.environ
    N,            \* the module constant N, the target sample size
    pc,           \* position of main
    sample_df,    \* main: sample_df
    warned,       \* main: the shortfall notice was printed
    out_f,        \* "unopened", "open" or "closed"
    out,          \* the lines of OUT_PATH
    i,            \* main: loop index
    errors,       \* main: errors
    prompt,       \* main: prompt
    candidates,   \* call_llm: candidates
    ci,           \* call_llm: 1-based position of the for loop in candidates
    last_err,     \* call_llm: last_err
    result,       \* call_llm: what the most recent request did
    ret,          \* the (text, err) pair call_llm returned
    exc,          \* the exception that ended the run, and where it was raised
    attempted,    \* history: the models requested by the current call_llm
    fails,        \* history: attempts of the current call that were passed over
    trail,        \* history: the last two of the events post, sleep, write
    requested     \* history: some request was sent to the provider

vars ==
    << variant, csv_exists, csv_rows, env, N, pc, sample_df, warned, out_f, out, i,
       errors, prompt, candidates, ci, last_err, result, ret, exc, attempted,
       fails, trail, requested >>

\* The last two events.
Push(t, e) == IF Len(t) < 2 THEN Append(t, e) ELSE <<t[2], e>>

Min(a, b) == IF a < b THEN a ELSE b

\* ------------------------------------------------------------- load_data
\* (variant of load_data that lost its existence test)
LoadDataNeverRaises(exists) == FALSE

LoadDataRaises(exists) == ~exists

\* --------------------------------------------------------------- sampling
\* Sequences of n distinct positions of a frame of r rows.
InjSeqs(r, n) ==
    { s \in [1..n -> 1..r] : \A a, b \in 1..n : a # b => s[a] # s[b] }

\* DataFrame.reset_index(drop=True)
ResetIndex(f) == [k \in 1..Len(f) |-> [f[k] EXCEPT !.index = k - 1]]

\* DataFrame.sample(N, random_state=SEED): N distinct rows, in an order the
\* seeded generator decides; the rows keep their index labels.
SampleFrames(f, n) == { [k \in 1..n |-> f[s[k]]] : s \in InjSeqs(Len(f), n) }

\* The frames main can end up with.
SampleDf(f, n) ==
    IF Len(f) < n THEN {f} ELSE { ResetIndex(g) : g \in SampleFrames(f, n) }

\* ------------------------------------------------------------ build_prompt
\* int(row.get("werkervaring_jaren", 0) or 0) in the cascade script,
\* int(row.get("werkervaring_jaren", 0)) in the single script: NaN is truthy
\* and int(NaN) raises ValueError in both.
BuildPromptRaises(row) == row.werkervaring_jaren = "nan"

BuildPrompt(row) ==
    Str(<<"Functie: ">> \o row.functie.chars
        \o <<"Werkervaring (jaren): ", row.werkervaring_jaren>>)

\* ------------------------------------------------------ call_llm (cascade)
FixedCandidates ==
    << Str(<<"groq/compound">>), Str(<<"groq/compound-mini">>),
       Str(<<"llama-3.1-8b-instant">>), Str(<<"llama-3.3-70b-versatile">>),
       Str(<<"openai/gpt-oss-20b">>) >>

ApiKey(e) == PyOr(e.GROQ_API, e.GROQ_API_KEY)

Candidates(e) ==
    (IF Truthy(e.MODEL) THEN <<e.MODEL>> ELSE <<>>) \o FixedCandidates

NoKeyError == Str(<<"No GROQ_API found in env">>)

NetworkErrorMsg(m, o) ==
    Str(<<"Network error while trying model ">> \o m.chars \o <<": ">> \o o.msg)

StatusErrorMsg(m, o) ==
    Str(<<"Model ">> \o m.chars \o <<" returned ", StatusStr(o.status_code), ": ",
          "body">>)

\* (variant of the except branch that forgets to record the error)
LastErrKept(old, m, o) == old

\* last_err after the except branch of the request
LastErrAfterException(old, m, o) == NetworkErrorMsg(m, o)

\* (variant of the early stop that knows 401 only)
IsAuthErrorOnly401(status) == status = 401

IsAuthError(status) == status \in {401, 403}

\* json.dumps(j, ensure_ascii=False) of a body of another shape
JsonDumps(b) == Str(<<"{", "}">>)

\* The status-200 branch: [raised, exc, text].
OkBranch(o) ==
    IF o.body.json = "invalid"
    THEN \* resp.json() raises; the handler reads j, which was never bound
         [raised |-> TRUE, exc |-> "UnboundLocalError", text |-> None]
    ELSE LET text == IF o.body.json = "chat" THEN o.body.content ELSE JsonDumps(o.body)
         IN  IF text = None
             THEN \* None.strip()
                  [raised |-> TRUE, exc |-> "AttributeError", text |-> None]
             ELSE [raised |-> FALSE, exc |-> "", text |-> Strip(text)]

\* One iteration of the loop over the candidates, for model m and outcome o:
\* how it leaves the loop, last_err, the returned pair and whether it slept.
Iteration(m, o, old) ==
    IF o.kind = "exception"
    THEN [next |-> "continue", last_err |-> LastErrAfterException(old, m, o),
          ret |-> <<None, None>>, exc |-> "", slept |-> FALSE]
    ELSE IF o.status_code = 200
    THEN LET b == OkBranch(o)
         IN  IF b.raised
             THEN [next |-> "raise", last_err |-> old, ret |-> <<None, None>>,
                   exc |-> b.exc, slept |-> FALSE]
             ELSE [next |-> "return", last_err |-> old, ret |-> <<b.text, None>>,
                   exc |-> "", slept |-> FALSE]
    ELSE LET e == StatusErrorMsg(m, o)
         IN  IF IsAuthError(o.status_code)
             THEN [next |-> "return", last_err |-> e, ret |-> <<None, e>>,
                   exc |-> "", slept |-> FALSE]
             ELSE [next |-> "continue", last_err |-> e, ret |-> <<None, None>>,
                   exc |-> "", slept |-> TRUE]

\* ------------------------------------------------------- call_llm (single)
CallLlmSingle(o) ==
    IF o.kind = "exception" THEN <<None, Str(o.msg)>>
    ELSE IF o.body.json # "chat" THEN <<None, Str(<<"'choices'">>)>>
    ELSE IF o.body.content = None
    THEN <<None, Str(<<"'NoneType' object has no attribute 'strip'">>)>>
    ELSE <<Strip(o.body.content), None>>

\* ------------------------------------------------------------------- main
\* (variant of main without the progress print)
LenNeverRaises(text) == FALSE

\* print("  OK - length:", len(text)) raises TypeError when text is None
LenRaises(text) == text = None

ErrorLine(idx, row, err) ==
    [idx |-> idx, medewerker_id |-> row.medewerker_id, functie |-> row.functie,
     answer |-> None, error |-> err]

AnswerLine(idx, row, text) ==
    [idx |-> idx, medewerker_id |-> row.medewerker_id, functie |-> row.functie,
     answer |-> text]

\* --------------------------------------------------------------------------
Init ==
    /\ variant \in {"cascade", "single"}
    /\ csv_exists \in BOOLEAN
    /\ csv_rows \in IF csv_exists
                    THEN UNION { Datasets(r) : r \in 0..MaxRows }
                    ELSE { <<>> }
    /\ env \in IF variant = "cascade" THEN Environments
               ELSE { [GROQ_API |-> None, GROQ_API_KEY |-> None, MODEL |-> None] }
    /\ N \in 1..MaxN
    /\ pc = "start"
    /\ sample_df = <<>>
    /\ warned = FALSE
    /\ out_f = "unopened"
    /\ out = <<>>
    /\ i = 0
    /\ errors = 0
    /\ prompt = None
    /\ candidates = <<>>
    /\ ci = 1
    /\ last_err = None
    /\ result = NoResult
    /\ ret = <<None, None>>
    /\ exc = NoExc
    /\ attempted = <<>>
    /\ fails = 0
    /\ trail = <<>>
    /\ requested = FALSE

\* main, line 147: load_data raises FileNotFoundError.
LoadFails ==
    /\ pc = "start"
    /\ LoadDataRaises(csv_exists)
    /\ pc' = "aborted"
    /\ exc' = Exc("FileNotFoundError", "load_data")
    /\ UNCHANGED << variant, csv_exists, csv_rows, env, N, sample_df, warned, out_f, out,
                    i, errors, prompt, candidates, ci, last_err, result, ret,
                    attempted, fails, trail, requested >>

\* main, lines 147-157: load, sample, open the output file.
Startup ==
    /\ pc = "start"
    /\ ~LoadDataRaises(csv_exists)
    /\ sample_df' \in SampleDf(csv_rows, N)
    /\ warned' = (Len(csv_rows) < N)
    /\ out_f' = "open"
    /\ out' = <<>>
    /\ errors' = 0
    /\ i' = 0
    /\ pc' = "loop"
    /\ UNCHANGED << variant, csv_exists, csv_rows, env, N, prompt, candidates, ci,
                    last_err, result, ret, exc, attempted, fails, trail, requested >>

\* main, lines 158-161: the next record is rendered into a prompt.
Prompt ==
    /\ pc = "loop"
    /\ i < Len(sample_df)
    /\ LET row == sample_df[i + 1]
       IN  IF BuildPromptRaises(row)
           THEN /\ pc' = "aborted"
                /\ exc' = Exc("ValueError", "build_prompt")
                /\ UNCHANGED prompt
           ELSE /\ pc' = "call"
                /\ prompt' = BuildPrompt(row)
                /\ UNCHANGED exc
    /\ UNCHANGED << variant, csv_exists, csv_rows, env, N, sample_df, warned, out_f, out,
                    i, errors, candidates, ci, last_err, result, ret, attempted,
                    fails, trail, requested >>

\* call_llm of the cascade script, lines 89-109.
CallStart ==
    /\ pc = "call"
    /\ variant = "cascade"
    /\ attempted' = <<>>
    /\ fails' = 0
    /\ result' = NoResult
    /\ IF ~Truthy(ApiKey(env))
       THEN /\ ret' = <<None, NoKeyError>>
            /\ pc' = "emit"
            /\ UNCHANGED << candidates, ci, last_err >>
       ELSE /\ candidates' = Candidates(env)
            /\ ci' = 1
            /\ last_err' = None
            /\ ret' = <<None, None>>
            /\ pc' = "attempt"
    /\ UNCHANGED << variant, csv_exists, csv_rows, env, N, sample_df, warned, out_f, out,
                    i, errors, prompt, exc, trail, requested >>

\* call_llm of the cascade script, lines 110-141: one candidate.
Attempt ==
    /\ pc = "attempt"
    /\ ci <= Len(candidates)
    /\ \E o \in PostOutcomes :
         LET m == candidates[ci]
             r == Iteration(m, o, last_err)
         IN  /\ result' = o
             /\ attempted' = Append(attempted, m)
             /\ requested' = TRUE
             /\ last_err' = r.last_err
             /\ trail' = IF r.slept THEN Push(Push(trail, "post"), "sleep")
                         ELSE Push(trail, "post")
             /\ CASE r.next = "continue" ->
                       /\ ci' = ci + 1
                       /\ fails' = fails + 1
                       /\ UNCHANGED << pc, ret, exc >>
                  [] r.next = "return" ->
                       /\ ret' = r.ret
                       /\ pc' = "emit"
                       /\ UNCHANGED << ci, fails, exc >>
                  [] r.next = "raise" ->
                       /\ exc' = Exc(r.exc, "call_llm")
                       /\ pc' = "aborted"
                       /\ UNCHANGED << ci, fails, ret >>
    /\ UNCHANGED << variant, csv_exists, csv_rows, env, N, sample_df, warned, out_f, out,
                    i, errors, prompt, candidates >>

\* call_llm of the cascade script, line 143: the list is exhausted.
ReturnExhausted ==
    /\ pc = "attempt"
    /\ ci > Len(candidates)
    /\ ret' = <<None, PyOr(last_err, Str(<<"No model succeeded">>))>>
    /\ pc' = "emit"
    /\ UNCHANGED << variant, csv_exists, csv_rows, env, N, sample_df, warned, out_f, out,
                    i, errors, prompt, candidates, ci, last_err, result, exc,
                    attempted, fails, trail, requested >>

\* call_llm of the single script, lines 81-95.
CallSingle ==
    /\ pc = "call"
    /\ variant = "single"
    /\ \E o \in CreateOutcomes :
         /\ result' = o
         /\ ret' = CallLlmSingle(o)
    /\ attempted' = <<Str(<<"gpt-4o">>)>>
    /\ fails' = 0
    /\ requested' = TRUE
    /\ trail' = Push(trail, "post")
    /\ pc' = "emit"
    /\ UNCHANGED << variant, csv_exists, csv_rows, env, N, sample_df, warned, out_f, out,
                    i, errors, prompt, candidates, ci, last_err, exc >>

\* main, lines 164-184: the record's line is built, written and flushed, and
\* main sleeps 0.25 s before the next iteration.  call_llm's frame is gone by
\* now: its locals, and the history of that call, are cleared.
Emit ==
    /\ pc = "emit"
    /\ LET row  == sample_df[i + 1]
           text == ret[1]
           err  == ret[2]
       IN  IF Truthy(err)
           THEN /\ errors' = errors + 1
                /\ out' = Append(out, ErrorLine(i, row, err))
                /\ trail' = Push(Push(trail, "write"), "sleep")
                /\ i' = i + 1
                /\ pc' = "loop"
                /\ UNCHANGED exc
           ELSE IF LenRaises(text)
           THEN /\ pc' = "aborted"
                /\ exc' = Exc("TypeError", "main")
                /\ UNCHANGED << errors, out, trail, i >>
           ELSE /\ out' = Append(out, AnswerLine(i, row, text))
                /\ trail' = Push(Push(trail, "write"), "sleep")
                /\ i' = i + 1
                /\ pc' = "loop"
                /\ UNCHANGED << errors, exc >>
    /\ candidates' = <<>>
    /\ ci' = 1
    /\ last_err' = None
    /\ result' = NoResult
    /\ attempted' = <<>>
    /\ fails' = 0
    /\ UNCHANGED << variant, csv_exists, csv_rows, env, N, sample_df, warned, out_f,
                    prompt, ret, requested >>

\* main, lines 186-187: the loop is over.
Close ==
    /\ pc = "loop"
    /\ i >= Len(sample_df)
    /\ out_f' = "closed"
    /\ pc' = "done"
    /\ UNCHANGED << variant, csv_exists, csv_rows, env, N, sample_df, warned, out, i,
                    errors, prompt, candidates, ci, last_err, result, ret, exc,
                    attempted, fails, trail, requested >>

Next ==
    \/ LoadFails
    \/ Startup
    \/ Prompt
    \/ CallStart
    \/ Attempt
    \/ ReturnExhausted
    \/ CallSingle
    \/ Emit
    \/ Close

Spec == Init /\ [][Next]_vars

\* ------------------------------------------------------------ properties
RunEnded == pc \in {"done", "aborted"}

\* call_llm is over: it returned to main, or an exception left it.
CallEnded == pc = "emit" \/ (pc = "aborted" /\ exc.where = "call_llm")

IsAuthResult(o) == o.kind = "response" /\ o.status_code \in {401, 403}

IsPrefix(a, b) == Len(a) <= Len(b) /\ a = SubSeq(b, 1, Len(a))

HasAnswer(line) == line.answer # None

HasError(line) == "error" \in DOMAIN line /\ line.error # None

\* C1: when a run whose dataset loaded ends, the output file holds exactly one
\* line per sampled record, in sampling order: line k is the result of sampled
\* record k, whatever happened to the individual records.
C1_OneLinePerRecord ==
    (RunEnded /\ csv_exists) =>
        /\ Len(out) = Len(sample_df)
        /\ \A k \in 1..Len(out) :
             /\ out[k].idx = k - 1
             /\ out[k].medewerker_id = sample_df[k].medewerker_id

\* C2: every line written, by either script, has exactly one of a non-null
\* answer and an error.
C2_ExactlyOneOfAnswerError ==
    \A k \in 1..Len(out) : HasAnswer(out[k]) # HasError(out[k])

\* Reached: the single script wrote a line whose answer is the empty text;
\* for the next record call_llm returned (None, "") for an exception whose
\* string form is empty, and main stopped on len(None) before writing a line.
C2_Witness ==
    /\ variant = "single"
    /\ Len(out) = 1
    /\ HasAnswer(out[1])
    /\ out[1].answer = Str(<<>>)
    /\ ret = <<None, Str(<<>>)>>
    /\ exc = Exc("TypeError", "main")

\* C3: call_llm never raises past its own boundary: no exception leaves it.
C3_CallLlmNeverRaises == exc.where # "call_llm"

\* C4: in the cascade, when a candidate returns HTTP 200 (the first to do so,
\* no earlier one having returned 401 or 403), call_llm succeeds with that
\* candidate's text, and the candidates requested are exactly those up to it,
\* once each, in list order, the preferred model first.
C4_FirstOkWins ==
    (variant = "cascade" /\ CallEnded
        /\ result.kind = "response" /\ result.status_code = 200) =>
        /\ pc = "emit"
        /\ ret[2] = None
        /\ ret[1] # None
        /\ (result.body.json = "chat" /\ result.body.content # None
               => ret[1] = Strip(result.body.content))
        /\ IsPrefix(attempted, candidates)
        /\ (Truthy(env.MODEL) => attempted[1] = env.MODEL)

\* C5: in the cascade, a candidate that returns 401 or 403 ends the call: the
\* loop never goes on after it, call_llm returns (None, that candidate's
\* error), and every call requests the candidates from the first one on.
C5_AuthStops ==
    variant = "cascade" =>
        /\ (pc = "attempt" => ~IsAuthResult(result))
        /\ (pc = "attempt" => attempted = SubSeq(candidates, 1, ci - 1))
        /\ (pc = "emit" /\ IsAuthResult(result) =>
               /\ IsPrefix(attempted, candidates)
               /\ ret = <<None, StatusErrorMsg(attempted[Len(attempted)], result)>>)

\* Reached: the first record ended on a 401 of the first candidate, and the
\* second record's call has just returned on a 403 of a later candidate.
C5_Witness ==
    /\ variant = "cascade"
    /\ pc = "emit"
    /\ i = 1
    /\ Len(out) = 1
    /\ result.kind = "response"
    /\ result.status_code = 403
    /\ Len(attempted) >= 2
    /\ HasError(out[1])
    /\ out[1].error = StatusErrorMsg(candidates[1], ErrorResponse(401))

\* The error call_llm records for the candidate requested last.
LastAttemptError ==
    IF result.kind = "exception"
    THEN NetworkErrorMsg(attempted[Len(attempted)], result)
    ELSE StatusErrorMsg(attempted[Len(attempted)], result)

\* C6: in the cascade, when every candidate failed with a network error or a
\* status other than 200, 401 and 403, all candidates were requested and
\* call_llm returns (None, the error of the candidate requested last).
C6_ExhaustedReturnsLastError ==
    (variant = "cascade" /\ pc \in {"attempt", "emit"}
        /\ Len(candidates) > 0 /\ fails = Len(candidates)) =>
        /\ attempted = candidates
        /\ ci = Len(candidates) + 1
        /\ (pc = "emit" => ret = <<None, LastAttemptError>>)

\* Reached: all six candidates failed, the last one with a network error, and
\* call_llm has returned.
C6_Witness ==
    /\ variant = "cascade"
    /\ pc = "emit"
    /\ Len(candidates) = 6
    /\ fails = 6
    /\ result.kind = "exception"

\* C7: when the dataset path does not exist the run aborts with the
\* dataset-not-found error: the output file is never opened, no line is
\* written and no request is sent.
C7_MissingDatasetAborts ==
    ~csv_exists =>
        /\ out_f = "unopened"
        /\ out = <<>>
        /\ ~requested
        /\ pc \in {"start", "aborted"}
        /\ (pc = "aborted" => exc = Exc("FileNotFoundError", "load_data"))

\* Reached: the run was aborted on a missing dataset.
C7_Witness == ~csv_exists /\ pc = "aborted"

\* C8: for R rows and target N, min(R, N) records are sampled; when R < N all
\* rows are used, with a notice, and exactly R lines are produced; otherwise N
\* distinct rows are drawn and renumbered 0..N-1.
C8_SampleSize ==
    (RunEnded /\ csv_exists) =>
        LET R == Len(csv_rows)
        IN  /\ Len(sample_df) = Min(R, N)
            /\ (R < N => warned /\ sample_df = csv_rows /\ Len(out) = R)
            /\ (R >= N =>
                  /\ \A a, b \in 1..Len(sample_df) :
                       a # b => sample_df[a].medewerker_id # sample_df[b].medewerker_id
                  /\ \A k \in 1..Len(sample_df) :
                       /\ sample_df[k].index = k - 1
                       /\ \E r \in 1..R :
                            csv_rows[r].medewerker_id = sample_df[k].medewerker_id)

\* How a call_llm that is over ended.
CallState ==
    IF pc = "aborted" THEN "raised"
    ELSE IF ret[2] = None THEN "succeeded"
    ELSE IF IsAuthResult(result) THEN "non-recoverable-failed"
    ELSE "exhausted-failed"

\* C9: every call_llm of the cascade ends succeeded, exhausted-failed or
\* non-recoverable-failed, having moved through the candidates forwards only,
\* with at most one request per entry of the list.
C9_CascadeTerminal ==
    variant = "cascade" =>
        /\ (CallEnded =>
              CallState \in {"succeeded", "exhausted-failed", "non-recoverable-failed"})
        /\ (pc \in {"attempt", "emit"} => IsPrefix(attempted, candidates))
        /\ (pc = "attempt" => ci = Len(attempted) + 1)

\* C10: a sleep separates a failed attempt from the next attempt, and a
\* record's line from the next record's first attempt.
C10_SleepBetween ==
    /\ trail # <<"post", "post">>
    /\ trail # <<"write", "post">>

====
